---- MODULE Spec2Model ----
(***************************************************************************)
(* IBM index selection (selection/algorithms/ibm_algorithm.py).           *)
(*                                                                         *)
(* The specifications share the variables below:                          *)
(*   Spec          _calculate_best_indexes from line 62 on: the call of   *)
(*                 _combine_subsumed, the greedy fill, _try_variations    *)
(*                 and the return;                                         *)
(*   SpecCombine   _combine_subsumed applied to bounded benefit lists;    *)
(*   SpecPossible  _possible_indexes applied to bounded queries;          *)
(*   SpecBenefits  _calculate_index_benefits applied to bounded query     *)
(*                 results;                                                *)
(*   SpecExploit   _exploit_virtual_indexes and _recommended_indexes on   *)
(*                 bounded workloads, with the database as a set of       *)
(*                 simulated indexes;                                      *)
(*   SpecFair      Spec with the refiner running on and the clock         *)
(*                 advancing.                                              *)
(*                                                                         *)
(* An entry of a benefit list is a record [index, benefit, size]: the     *)
(* item access x['size'] / x['index'] of lines 67-72 and 193-237 and the  *)
(* attribute access x.index / x.size() of lines 21-42 and 158-179 both    *)
(* read these fields.  Sizes and the budget are counted in one unit.      *)
(***************************************************************************)
EXTENDS Integers, Sequences, FiniteSets, TLC

\* ------------------------------------------------------------ bounds

MaxLen == 3          \* longest benefit list handed to _combine_subsumed
MaxSize == 2         \* estimated sizes are 1..MaxSize
MaxBenefit == 1      \* benefits are 0..MaxBenefit
MaxBudget == 3       \* disk_constraint is 0..MaxBudget
MaxCost == 1         \* workload costs are 0..MaxCost
MaxSeconds == 1      \* try_variation_seconds_limit is 0..MaxSeconds
MaxIndexColumns == 3 \* max_index_columns is 1..MaxIndexColumns
MaxQueries == 2      \* longest workload handed to _calculate_index_benefits

\* DEFAULT_PARAMETERS, line 17
try_variation_maximum_remove == 4

\* ------------------------------------------------------------ data

Col(t, n) == [table |-> t, name |-> n]

Range(s) == {s[i] : i \in 1..Len(s)}

\* The indexes the selection specifications draw their lists from.
SelectionIndexes == {<<Col("T", "A")>>, <<Col("T", "A"), Col("T", "B")>>}

\* Index.subsumes(other): the other index's column sequence is a leading
\* part of this one's.
subsumes(high, low) ==
    /\ Len(low) <= Len(high)
    /\ SubSeq(high, 1, Len(low)) = low

IndexBenefit(index, benefit, size) ==
    [index |-> index, benefit |-> benefit, size |-> size]

\* benefit_size_ratio(x) >= benefit_size_ratio(y), sizes being positive
ratio_ge(x, y) == x.benefit * y.size >= y.benefit * x.size

Entries(indexes) ==
    {IndexBenefit(i, b, s) : i \in indexes, b \in 0..MaxBenefit, s \in 1..MaxSize}

DistinctIndexes(list) ==
    \A i, j \in 1..Len(list) : i # j => list[i].index # list[j].index

\* list is a benefit list of at most longest entries: one entry per candidate
\* index, in any order.
IsBenefitList(list, indexes, longest) ==
    /\ \E n \in 0..longest : list \in [1..n -> Entries(indexes)]
    /\ DistinctIndexes(list)

RECURSIVE SumSizes(_)
SumSizes(list) ==
    IF list = <<>> THEN 0 ELSE list[1].size + SumSizes(Tail(list))

\* [x for x in list if keep(x)]
RECURSIVE Filter(_, _)
Filter(list, keep) ==
    IF list = <<>> THEN <<>>
    ELSE IF list[1] \in keep THEN <<list[1]>> \o Filter(Tail(list), keep)
         ELSE Filter(Tail(list), keep)

\* list.remove(x) left out
ListRemove_left_out(list, x) == list

\* list.remove(x): drops the first element equal to x
RECURSIVE ListRemove(_, _)
ListRemove(list, x) ==
    IF list = <<>> THEN <<>>
    ELSE IF list[1] = x THEN Tail(list)
         ELSE <<list[1]>> \o ListRemove(Tail(list), x)

\* the elements of list at the positions not in drop, in list order
RECURSIVE KeepPositions(_, _, _)
KeepPositions(list, drop, i) ==
    IF i > Len(list) THEN <<>>
    ELSE IF i \in drop THEN KeepPositions(list, drop, i + 1)
         ELSE <<list[i]>> \o KeepPositions(list, drop, i + 1)

\* the elements of list at the positions in take, highest position first
RECURSIVE TakeDescending(_, _, _)
TakeDescending(list, take, i) ==
    IF i < 1 THEN <<>>
    ELSE IF i \in take THEN <<list[i]>> \o TakeDescending(list, take, i - 1)
         ELSE TakeDescending(list, take, i - 1)

\* ------------------------------------------------- _combine_subsumed

\* line 165: the assertion on the first two entries
combine_assertion_holds(index_benefits) ==
    ratio_ge(index_benefits[1], index_benefits[2])

\* the inner loop with the arguments of subsumes exchanged
RECURSIVE scan_low_ratio_exchanged(_, _, _, _)
scan_low_ratio_exchanged(index_benefits, high, low, already_removed) ==
    IF low > Len(index_benefits) THEN already_removed
    ELSE IF index_benefits[low] \in already_removed
         THEN scan_low_ratio_exchanged(index_benefits, high, low + 1,
                                       already_removed)
         ELSE IF subsumes(index_benefits[low].index, index_benefits[high].index)
              THEN scan_low_ratio_exchanged(index_benefits, high, low + 1,
                       already_removed \cup {index_benefits[low]})
              ELSE scan_low_ratio_exchanged(index_benefits, high, low + 1,
                                            already_removed)

\* lines 173-177: the inner loop over index_benefits[high_ratio_pos + 1:]
RECURSIVE scan_low_ratio(_, _, _, _)
scan_low_ratio(index_benefits, high, low, already_removed) ==
    IF low > Len(index_benefits) THEN already_removed
    ELSE IF index_benefits[low] \in already_removed
         THEN scan_low_ratio(index_benefits, high, low + 1, already_removed)
         ELSE IF subsumes(index_benefits[high].index, index_benefits[low].index)
              THEN scan_low_ratio(index_benefits, high, low + 1,
                                  already_removed \cup {index_benefits[low]})
              ELSE scan_low_ratio(index_benefits, high, low + 1, already_removed)

\* the outer loop with the inner one over index_benefits[high_ratio_pos:]
RECURSIVE scan_high_ratio_from_itself(_, _, _)
scan_high_ratio_from_itself(index_benefits, high, already_removed) ==
    IF high > Len(index_benefits) THEN already_removed
    ELSE IF index_benefits[high] \in already_removed
         THEN scan_high_ratio_from_itself(index_benefits, high + 1,
                                          already_removed)
         ELSE scan_high_ratio_from_itself(index_benefits, high + 1,
                  scan_low_ratio(index_benefits, high, high, already_removed))

\* lines 169-177: the outer loop over enumerate(index_benefits)
RECURSIVE scan_high_ratio(_, _, _)
scan_high_ratio(index_benefits, high, already_removed) ==
    IF high > Len(index_benefits) THEN already_removed
    ELSE IF index_benefits[high] \in already_removed
         THEN scan_high_ratio(index_benefits, high + 1, already_removed)
         ELSE scan_high_ratio(index_benefits, high + 1,
                  scan_low_ratio(index_benefits, high, high + 1, already_removed))

\* the outer loop started at the second entry
already_removed_after_first(index_benefits) ==
    scan_high_ratio(index_benefits, 2, {})

already_removed_index_benefits(index_benefits) ==
    scan_high_ratio(index_benefits, 1, {})

\* lines 158-179: whether the call raises, and the set it returns
_combine_subsumed_raises(index_benefits) ==
    /\ Len(index_benefits) >= 2
    /\ ~combine_assertion_holds(index_benefits)

_combine_subsumed(index_benefits) ==
    IF Len(index_benefits) < 2 THEN Range(index_benefits)
    ELSE Range(index_benefits) \ already_removed_index_benefits(index_benefits)

\* ------------------------------------------------- _possible_indexes

\* itertools.permutations(columns, length): the orderings of length distinct
\* elements of columns
RECURSIVE permutations(_, _)
permutations(columns, length) ==
    IF length = 0 THEN {<<>>}
    ELSE UNION {{<<c>> \o p : p \in permutations(columns \ {c}, length - 1)} :
                   c \in columns}

\* lines 118-123
indexable_columns_per_table(columns) ==
    [table \in {c.table : c \in columns} |-> {c \in columns : c.table = table}]

\* lines 128-130 with range(1, max_columns)
index_lengths_short(max_columns_) == 1..(max_columns_ - 1)

\* line 128: range(1, max_columns + 1)
index_lengths(max_columns_) == 1..max_columns_

\* lines 113-133
_possible_indexes(columns, max_columns_) ==
    LET per_table == indexable_columns_per_table(columns)
    IN  UNION {UNION {permutations(per_table[table], index_length) :
                         index_length \in index_lengths(max_columns_)} :
                  table \in DOMAIN per_table}

\* ----------------------------------------- _calculate_index_benefits

\* lines 145-146
benefit_for_query(value) ==
    value.cost_without_indexes - value.cost_with_recommended_indexes

\* lines 141-147 without the test of line 142
RECURSIVE sum_benefit_of_every_query(_, _, _, _)
sum_benefit_of_every_query(index_candidate, results, query, benefit) ==
    IF query > Len(results) THEN benefit
    ELSE sum_benefit_of_every_query(index_candidate, results, query + 1,
                                    benefit + benefit_for_query(results[query]))

\* lines 141-147: the loop over query_results.items()
RECURSIVE sum_benefit(_, _, _, _)
sum_benefit(index_candidate, results, query, benefit) ==
    IF query > Len(results) THEN benefit
    ELSE IF index_candidate \notin results[query].recommended_indexes
         THEN sum_benefit(index_candidate, results, query + 1, benefit)
         ELSE sum_benefit(index_candidate, results, query + 1,
                          benefit + benefit_for_query(results[query]))

\* lines 138-149: the IndexBenefit objects appended
unsorted_indexes_benefit(candidates_, results, sizes) ==
    {IndexBenefit(c, sum_benefit(c, results, 1, 0), sizes[c]) : c \in candidates_}

\* lines 150-152: sorted(..., reverse=True, key=benefit_size_ratio); entries of
\* equal ratio come out in the order the candidate set was iterated
sorted_by_ratio(entries) ==
    {list \in permutations(entries, Cardinality(entries)) :
        \A i \in 1..(Len(list) - 1) : ratio_ge(list[i], list[i + 1])}

\* ------------------------------------------------------------ state

VARIABLES
    pc,                     \* where the run is
    indexes_benefits_bound, \* whether the name indexes_benefits resolves
    indexes_benefits,       \* the list it resolves to
    disk_constraint,        \* self.disk_constraint
    seconds_limit,          \* self.seconds_limit
    selected_indexes,
    disk_usage,
    walk,                   \* position of the greedy loop in indexes_benefits
    not_used_indexes,
    current_cost,
    number_removed,
    removed,
    new_selected,
    added,                  \* the index i of the loop of line 210
    cost_of,                \* calculate_cost: the costs returned so far
    now,                    \* time.time() - start_time
    returned,               \* the list _calculate_best_indexes returns
    before,                 \* history: the state at the head of the iteration
    initial_cost,           \* history: the cost of line 189
    combine_pc,             \* SpecCombine: where the call of _combine_subsumed is
    index_benefits,         \* SpecCombine: the argument of _combine_subsumed
    combined,               \* SpecCombine: the set _combine_subsumed returns
    possible_pc,            \* SpecPossible: where the call of _possible_indexes is
    query_columns,          \* SpecPossible: query.columns
    max_columns,            \* SpecPossible: self.parameters['max_index_columns']
    possible_indexes,       \* SpecPossible: the indexes _possible_indexes returns
    benefits_pc,            \* SpecBenefits: where _calculate_index_benefits is
    candidates,             \* SpecBenefits: the argument candidates
    query_results,          \* SpecBenefits: the argument query_results
    estimated_size,         \* SpecBenefits: index.estimated_size of the candidates
    indexes_benefit,        \* SpecBenefits: the list returned
    exploit_pc,             \* SpecExploit: where _exploit_virtual_indexes is
    workload,               \* SpecExploit: workload.queries
    max_index_columns,      \* SpecExploit: self.parameters['max_index_columns']
    query_position,         \* SpecExploit: position of the loop of line 76
    simulated,              \* SpecExploit: the indexes simulated in the database
    cost_without_indexes,   \* SpecExploit: the local of line 78
    plan,                   \* SpecExploit: the plan of line 96
    exploit_results,        \* SpecExploit: the dictionary query_results
    index_candidates        \* SpecExploit: the set index_candidates

selectionVars ==
    <<pc, indexes_benefits_bound, indexes_benefits, disk_constraint,
      seconds_limit, selected_indexes, disk_usage, walk, not_used_indexes,
      current_cost, number_removed, removed, new_selected, added, cost_of,
      now, returned, before, initial_cost>>

combineVars == <<combine_pc, index_benefits, combined>>

possibleVars == <<possible_pc, query_columns, max_columns, possible_indexes>>

benefitVars ==
    <<benefits_pc, candidates, query_results, estimated_size, indexes_benefit>>

exploitVars ==
    <<exploit_pc, workload, max_index_columns, query_position, simulated,
      cost_without_indexes, plan, exploit_results, index_candidates>>

vars == <<selectionVars, combineVars, possibleVars, benefitVars, exploitVars>>

notSelectionVars == <<combineVars, possibleVars, benefitVars, exploitVars>>

notCombineVars == <<selectionVars, possibleVars, benefitVars, exploitVars>>

notPossibleVars == <<selectionVars, combineVars, benefitVars, exploitVars>>

notBenefitVars == <<selectionVars, combineVars, possibleVars, exploitVars>>

notExploitVars == <<selectionVars, combineVars, possibleVars, benefitVars>>

IdleSelection ==
    /\ pc = "idle"
    /\ indexes_benefits_bound = FALSE
    /\ indexes_benefits = <<>>
    /\ disk_constraint = 0
    /\ seconds_limit = 0
    /\ selected_indexes = <<>>
    /\ disk_usage = 0
    /\ walk = 1
    /\ not_used_indexes = <<>>
    /\ current_cost = 0
    /\ number_removed = 0
    /\ removed = <<>>
    /\ new_selected = <<>>
    /\ added = 0
    /\ cost_of = <<>>
    /\ now = 0
    /\ returned = <<>>
    /\ before = [selected |-> <<>>, not_used |-> <<>>, cost |-> 0]
    /\ initial_cost = 0

IdleCombine ==
    /\ combine_pc = "idle"
    /\ index_benefits = <<>>
    /\ combined = {}

IdlePossible ==
    /\ possible_pc = "idle"
    /\ query_columns = {}
    /\ max_columns = 1
    /\ possible_indexes = {}

IdleBenefits ==
    /\ benefits_pc = "idle"
    /\ candidates = {}
    /\ query_results = <<>>
    /\ estimated_size = <<>>
    /\ indexes_benefit = <<>>

IdleExploit ==
    /\ exploit_pc = "idle"
    /\ workload = <<>>
    /\ max_index_columns = 1
    /\ query_position = 1
    /\ simulated = {}
    /\ cost_without_indexes = 0
    /\ plan = [cost |-> 0, indexes |-> {}]
    /\ exploit_results = <<>>
    /\ index_candidates = {}

Costs == 0..MaxCost

Snapshot(sel, unused, cost) ==
    [selected |-> sel, not_used |-> unused, cost |-> cost]

IndexesOf(list) == {list[i].index : i \in 1..Len(list)}

\* calculate_cost(workload, index_candidates) returning c: one cost per index
\* set within a run
calculate_cost(index_candidates_, c) ==
    /\ c \in Costs
    /\ IndexesOf(index_candidates_) \in DOMAIN cost_of
          => c = cost_of[IndexesOf(index_candidates_)]
    /\ cost_of' = (IndexesOf(index_candidates_) :> c) @@ cost_of

\* ----------------------------------------- _calculate_best_indexes

\* Lines 62, 66 and 70 read the name indexes_benefits.  The method binds
\* index_benefits (line 60) and never indexes_benefits, so the name is looked
\* up outside the method: with no binding there (the module as it stands) the
\* lookup of line 62 raises NameError; with a binding, the rest of the method
\* runs on the list the name is bound to.  Both cases are initial states.
\* The result of line 60 is read nowhere after line 62.
InitSelection ==
    /\ pc = "combine"
    /\ \/ /\ indexes_benefits_bound = TRUE
          /\ IsBenefitList(indexes_benefits, SelectionIndexes,
                           Cardinality(SelectionIndexes))
       \/ /\ indexes_benefits_bound = FALSE
          /\ indexes_benefits = <<>>
    /\ disk_constraint \in 0..MaxBudget
    /\ seconds_limit \in 0..MaxSeconds
    /\ selected_indexes = <<>>
    /\ disk_usage = 0
    /\ walk = 1
    /\ not_used_indexes = <<>>
    /\ current_cost = 0
    /\ number_removed = 0
    /\ removed = <<>>
    /\ new_selected = <<>>
    /\ added = 0
    /\ cost_of = <<>>
    /\ now = 0
    /\ returned = <<>>
    /\ before = Snapshot(<<>>, <<>>, 0)
    /\ initial_cost = 0
    /\ IdleCombine
    /\ IdlePossible
    /\ IdleBenefits
    /\ IdleExploit

\* line 62: the name indexes_benefits is bound nowhere in the method
RaiseNameError ==
    /\ pc = "combine"
    /\ ~indexes_benefits_bound
    /\ pc' = "NameError"
    /\ UNCHANGED <<indexes_benefits_bound, indexes_benefits, disk_constraint,
                   seconds_limit, selected_indexes, disk_usage, walk,
                   not_used_indexes, current_cost, number_removed, removed,
                   new_selected, added, cost_of, now, returned, before>>
    /\ UNCHANGED <<initial_cost, notSelectionVars>>

\* lines 62, 165: the assertion of _combine_subsumed fails
RaiseAssertionError ==
    /\ pc = "combine"
    /\ indexes_benefits_bound
    /\ _combine_subsumed_raises(indexes_benefits)
    /\ pc' = "AssertionError"
    /\ UNCHANGED <<indexes_benefits_bound, indexes_benefits, disk_constraint,
                   seconds_limit, selected_indexes, disk_usage, walk,
                   not_used_indexes, current_cost, number_removed, removed,
                   new_selected, added, cost_of, now, returned, before>>
    /\ UNCHANGED <<initial_cost, notSelectionVars>>

\* lines 62-65: _combine_subsumed returns, its result is dropped
CallCombineSubsumed ==
    /\ pc = "combine"
    /\ indexes_benefits_bound
    /\ ~_combine_subsumed_raises(indexes_benefits)
    /\ selected_indexes' = <<>>
    /\ disk_usage' = 0
    /\ walk' = 1
    /\ pc' = "greedy"
    /\ UNCHANGED <<indexes_benefits_bound, indexes_benefits, disk_constraint,
                   seconds_limit, not_used_indexes, current_cost,
                   number_removed, removed, new_selected, added, cost_of, now,
                   returned, before>>
    /\ UNCHANGED <<initial_cost, notSelectionVars>>

\* line 67 without the size of the candidate
greedy_fits_usage_only(usage, index, constraint) == usage <= constraint

\* line 67
greedy_fits(usage, index, constraint) == usage + index.size <= constraint

\* lines 66-69, the test of line 67 true
GreedyAdmit ==
    /\ pc = "greedy"
    /\ walk <= Len(indexes_benefits)
    /\ greedy_fits(disk_usage, indexes_benefits[walk], disk_constraint)
    /\ selected_indexes' = Append(selected_indexes, indexes_benefits[walk])
    /\ disk_usage' = disk_usage + indexes_benefits[walk].size
    /\ walk' = walk + 1
    /\ UNCHANGED <<pc, indexes_benefits_bound, indexes_benefits,
                   disk_constraint, seconds_limit, not_used_indexes,
                   current_cost, number_removed, removed, new_selected, added,
                   cost_of, now, returned, before>>
    /\ UNCHANGED <<initial_cost, notSelectionVars>>

\* the walk stopping at the first candidate that does not fit
GreedySkipStops ==
    /\ pc = "greedy"
    /\ walk <= Len(indexes_benefits)
    /\ ~greedy_fits(disk_usage, indexes_benefits[walk], disk_constraint)
    /\ walk' = Len(indexes_benefits) + 1
    /\ UNCHANGED <<pc, indexes_benefits_bound, indexes_benefits,
                   disk_constraint, seconds_limit, selected_indexes, disk_usage,
                   not_used_indexes, current_cost, number_removed, removed,
                   new_selected, added, cost_of, now, returned, before>>
    /\ UNCHANGED <<initial_cost, notSelectionVars>>

\* lines 66-67, the test of line 67 false
GreedySkip ==
    /\ pc = "greedy"
    /\ walk <= Len(indexes_benefits)
    /\ ~greedy_fits(disk_usage, indexes_benefits[walk], disk_constraint)
    /\ walk' = walk + 1
    /\ UNCHANGED <<pc, indexes_benefits_bound, indexes_benefits,
                   disk_constraint, seconds_limit, selected_indexes, disk_usage,
                   not_used_indexes, current_cost, number_removed, removed,
                   new_selected, added, cost_of, now, returned, before>>
    /\ UNCHANGED <<initial_cost, notSelectionVars>>

\* ------------------------------------------------- _try_variations

\* lines 70, 184-190
StartTryVariations ==
    /\ pc = "greedy"
    /\ walk > Len(indexes_benefits)
    /\ not_used_indexes' =
          Filter(indexes_benefits,
                 Range(indexes_benefits) \ Range(selected_indexes))
    /\ \E c \in Costs :
          /\ calculate_cost(selected_indexes, c)
          /\ current_cost' = c
          /\ before' = Snapshot(selected_indexes, not_used_indexes', c)
          /\ initial_cost' = c
    /\ now' = 0
    /\ pc' = "while"
    /\ UNCHANGED <<indexes_benefits_bound, indexes_benefits, disk_constraint,
                   seconds_limit, selected_indexes, disk_usage, walk,
                   number_removed, removed, new_selected, added, returned>>
    /\ UNCHANGED notSelectionVars

\* the clock advances between two readings of line 192
Tick ==
    /\ pc = "while"
    /\ now < seconds_limit
    /\ now' = now + 1
    /\ UNCHANGED <<pc, indexes_benefits_bound, indexes_benefits,
                   disk_constraint, seconds_limit, selected_indexes, disk_usage,
                   walk, not_used_indexes, current_cost, number_removed,
                   removed, new_selected, added, cost_of, returned, before>>
    /\ UNCHANGED <<initial_cost, notSelectionVars>>

\* line 192 with >= for >
time_left_or_equal(limit, elapsed) == limit >= elapsed

\* line 192
time_left(limit, elapsed) == limit > elapsed

\* lines 192 (false) and 72
ReturnSelected ==
    /\ pc = "while"
    /\ ~time_left(seconds_limit, now)
    /\ returned' = [i \in 1..Len(selected_indexes) |-> selected_indexes[i].index]
    /\ pc' = "done"
    /\ UNCHANGED <<indexes_benefits_bound, indexes_benefits, disk_constraint,
                   seconds_limit, selected_indexes, disk_usage, walk,
                   not_used_indexes, current_cost, number_removed, removed,
                   new_selected, added, cost_of, now, before>>
    /\ UNCHANGED <<initial_cost, notSelectionVars>>

\* line 198 with the slice one short
remove_at_indexes_one_short(r, length) ==
    {P \in SUBSET (1..length) :
        Cardinality(P) = (IF r - 1 < length THEN r - 1 ELSE length)}

\* lines 196-198: number_removed positions of the shuffled position list
remove_at_indexes(r, length) ==
    {P \in SUBSET (1..length) :
        Cardinality(P) = (IF r < length THEN r ELSE length)}

\* lines 192 (true), 193-209
RemoveRandom ==
    /\ pc = "while"
    /\ time_left(seconds_limit, now)
    /\ \E r \in 1..(try_variation_maximum_remove - 1) :
       \E P \in remove_at_indexes(r, Len(selected_indexes)) :
          /\ number_removed' = r
          /\ removed' = TakeDescending(selected_indexes, P, Len(selected_indexes))
          /\ selected_indexes' = KeepPositions(selected_indexes, P, 1)
          /\ disk_usage' = SumSizes(selected_indexes) - SumSizes(removed')
    /\ before' = Snapshot(selected_indexes, not_used_indexes, current_cost)
    /\ new_selected' = <<>>
    /\ added' = 0
    /\ pc' = "adding"
    /\ UNCHANGED <<indexes_benefits_bound, indexes_benefits, disk_constraint,
                   seconds_limit, walk, not_used_indexes, current_cost, cost_of,
                   now, returned>>
    /\ UNCHANGED <<initial_cost, notSelectionVars>>

\* lines 211-214 without the filter on the size
add_candidates_of_any_size(unused, usage, constraint) == Range(unused)

\* lines 211-214
add_candidates(unused, usage, constraint) ==
    {x \in Range(unused) : x.size <= constraint - usage}

\* lines 210-221, one pass of the loop that does not break
AddRandom ==
    /\ pc = "adding"
    /\ added < number_removed
    /\ \E selected_index \in
             add_candidates(not_used_indexes, disk_usage, disk_constraint) :
          /\ disk_usage' = disk_usage + selected_index.size
          /\ new_selected' = Append(new_selected, selected_index)
          /\ not_used_indexes' = ListRemove(not_used_indexes, selected_index)
    /\ added' = added + 1
    /\ UNCHANGED <<pc, indexes_benefits_bound, indexes_benefits,
                   disk_constraint, seconds_limit, selected_indexes, walk,
                   current_cost, number_removed, removed, cost_of, now,
                   returned, before>>
    /\ UNCHANGED <<initial_cost, notSelectionVars>>

\* the loop of line 210 is over: range exhausted, or the break of line 216
AddingOver ==
    \/ added >= number_removed
    \/ add_candidates(not_used_indexes, disk_usage, disk_constraint) = {}

\* line 226 with the comparison turned round
lower_cost_turned(cost, current) == cost > current

\* line 226 with <= for <
lower_cost_or_equal(cost, current) == cost <= current

\* line 226
lower_cost(cost, current) == cost < current

\* lines 224-230
AcceptVariation ==
    /\ pc = "adding"
    /\ AddingOver
    /\ \E cost \in Costs :
          /\ calculate_cost(selected_indexes \o new_selected, cost)
          /\ lower_cost(cost, current_cost)
          /\ current_cost' = cost
    /\ not_used_indexes' = not_used_indexes \o removed
    /\ selected_indexes' = selected_indexes \o new_selected
    /\ pc' = "while"
    /\ UNCHANGED <<indexes_benefits_bound, indexes_benefits, disk_constraint,
                   seconds_limit, disk_usage, walk, number_removed, removed,
                   new_selected, added, now, returned, before>>
    /\ UNCHANGED <<initial_cost, notSelectionVars>>

\* the rejection that leaves the tentative additions out of the pool
RejectVariationKeepsAdded ==
    /\ pc = "adding"
    /\ AddingOver
    /\ \E cost \in Costs :
          /\ calculate_cost(selected_indexes \o new_selected, cost)
          /\ ~lower_cost(cost, current_cost)
    /\ selected_indexes' = selected_indexes \o removed
    /\ pc' = "while"
    /\ UNCHANGED <<indexes_benefits_bound, indexes_benefits, disk_constraint,
                   seconds_limit, disk_usage, walk, current_cost,
                   number_removed, removed, new_selected, added, now, returned,
                   before, not_used_indexes>>
    /\ UNCHANGED <<initial_cost, notSelectionVars>>

\* the rejection that takes the cost of the rejected variation as baseline
RejectVariationTakesCost ==
    /\ pc = "adding"
    /\ AddingOver
    /\ \E cost \in Costs :
          /\ calculate_cost(selected_indexes \o new_selected, cost)
          /\ ~lower_cost(cost, current_cost)
          /\ current_cost' = cost
    /\ selected_indexes' = selected_indexes \o removed
    /\ not_used_indexes' = not_used_indexes \o new_selected
    /\ pc' = "while"
    /\ UNCHANGED <<indexes_benefits_bound, indexes_benefits, disk_constraint,
                   seconds_limit, disk_usage, walk, number_removed, removed,
                   new_selected, added, now, returned, before>>
    /\ UNCHANGED <<initial_cost, notSelectionVars>>

\* lines 224-226, 231-233
RejectVariation ==
    /\ pc = "adding"
    /\ AddingOver
    /\ \E cost \in Costs :
          /\ calculate_cost(selected_indexes \o new_selected, cost)
          /\ ~lower_cost(cost, current_cost)
    /\ selected_indexes' = selected_indexes \o removed
    /\ not_used_indexes' = not_used_indexes \o new_selected
    /\ pc' = "while"
    /\ UNCHANGED <<indexes_benefits_bound, indexes_benefits, disk_constraint,
                   seconds_limit, disk_usage, walk, current_cost,
                   number_removed, removed, new_selected, added, now, returned,
                   before>>
    /\ UNCHANGED <<initial_cost, notSelectionVars>>

NextSelection ==
    \/ RaiseNameError
    \/ RaiseAssertionError
    \/ CallCombineSubsumed
    \/ GreedyAdmit
    \/ GreedySkip
    \/ StartTryVariations
    \/ Tick
    \/ ReturnSelected
    \/ RemoveRandom
    \/ AddRandom
    \/ AcceptVariation
    \/ RejectVariation

Spec == InitSelection /\ [][NextSelection]_vars

\* The refiner keeps running (every call it makes returns), and the clock that
\* line 192 reads goes on: between the readings at the head of the loop, which
\* come again and again while the loop runs, it eventually advances.
SpecFair == Spec /\ WF_vars(NextSelection) /\ SF_vars(Tick)

\* ------------------------------------- _combine_subsumed on its own

CombineIndexes ==
    {<<Col("T", "A")>>, <<Col("T", "B")>>,
     <<Col("T", "A"), Col("T", "B")>>, <<Col("T", "B"), Col("T", "A")>>}

InitCombine ==
    /\ IdleSelection
    /\ IdlePossible
    /\ IdleBenefits
    /\ IdleExploit
    /\ combine_pc = "call"
    /\ IsBenefitList(index_benefits, CombineIndexes, MaxLen)
    /\ combined = {}

\* lines 162-163: fewer than two entries
CombineShortList ==
    /\ combine_pc = "call"
    /\ Len(index_benefits) < 2
    /\ combined' = _combine_subsumed(index_benefits)
    /\ combine_pc' = "returned"
    /\ UNCHANGED <<index_benefits, notCombineVars>>

\* line 165: the assertion fails
CombineAssertionError ==
    /\ combine_pc = "call"
    /\ _combine_subsumed_raises(index_benefits)
    /\ combine_pc' = "AssertionError"
    /\ UNCHANGED <<index_benefits, combined, notCombineVars>>

\* lines 165-179
CombineSubsumed ==
    /\ combine_pc = "call"
    /\ Len(index_benefits) >= 2
    /\ ~_combine_subsumed_raises(index_benefits)
    /\ combined' = _combine_subsumed(index_benefits)
    /\ combine_pc' = "returned"
    /\ UNCHANGED <<index_benefits, notCombineVars>>

NextCombine ==
    \/ CombineShortList
    \/ CombineAssertionError
    \/ CombineSubsumed

SpecCombine == InitCombine /\ [][NextCombine]_vars

\* ------------------------------------- _possible_indexes on its own

Columns ==
    {Col("T", "A"), Col("T", "B"), Col("T", "C"), Col("U", "A"), Col("U", "B")}

InitPossible ==
    /\ IdleSelection
    /\ IdleCombine
    /\ IdleBenefits
    /\ IdleExploit
    /\ possible_pc = "call"
    /\ query_columns \in SUBSET Columns
    /\ max_columns \in 1..MaxIndexColumns
    /\ possible_indexes = {}

\* lines 110-133
PossibleIndexes ==
    /\ possible_pc = "call"
    /\ possible_indexes' = _possible_indexes(query_columns, max_columns)
    /\ possible_pc' = "returned"
    /\ UNCHANGED <<query_columns, max_columns, notPossibleVars>>

NextPossible == PossibleIndexes

SpecPossible == InitPossible /\ [][NextPossible]_vars

\* ----------------------------- _calculate_index_benefits on its own

QueryResult ==
    [cost_without_indexes : 0..MaxCost,
     cost_with_recommended_indexes : 0..MaxCost,
     recommended_indexes : SUBSET SelectionIndexes]

InitBenefits ==
    /\ IdleSelection
    /\ IdleCombine
    /\ IdlePossible
    /\ IdleExploit
    /\ benefits_pc = "call"
    /\ candidates \in SUBSET SelectionIndexes
    /\ query_results \in UNION {[1..n -> QueryResult] : n \in 0..MaxQueries}
    /\ estimated_size \in [candidates -> 1..MaxSize]
    /\ indexes_benefit = <<>>

\* lines 135-152
CalculateIndexBenefits ==
    /\ benefits_pc = "call"
    /\ indexes_benefit' \in
          sorted_by_ratio(unsorted_indexes_benefit(candidates, query_results,
                                                   estimated_size))
    /\ benefits_pc' = "returned"
    /\ UNCHANGED <<candidates, query_results, estimated_size, notBenefitVars>>

NextBenefits == CalculateIndexBenefits

SpecBenefits == InitBenefits /\ [][NextBenefits]_vars

\* ------------------------------ _exploit_virtual_indexes on its own

\* The queries of the workloads: two queries that share the column T.A.
ExploitQueries ==
    {[nr |-> 1, columns |-> {Col("T", "A"), Col("T", "B")}],
     [nr |-> 2, columns |-> {Col("T", "A"), Col("U", "A")}]}

\* workload.queries: at most longest queries, each at most once
IsWorkload(list, longest) ==
    /\ \E n \in 0..longest : list \in [1..n -> ExploitQueries]
    /\ \A i, j \in 1..Len(list) : i # j => list[i] # list[j]

\* database_connector.get_plan(query): the plans the database may answer with
\* while the indexes of visible are simulated.  A plan has a total cost and
\* names some of the simulated indexes (hypopg_name in plan_string).
get_plan(visible) == [cost : Costs, indexes : SUBSET visible]

\* what_if.simulate_index(index): one more simulated index in the database
simulate_index(visible, index) == visible \cup {index}

\* what_if.drop_all_simulated_indexes()
drop_all_simulated_indexes_keeps(visible) == visible

drop_all_simulated_indexes(visible) == {}

\* line 92: the candidates of the query the loop is at
indexes_of_query ==
    _possible_indexes(workload[query_position].columns, max_index_columns)

\* lines 103-106: the candidates the plan names
recommended_indexes(indexes, p) == {index \in indexes : index \in p.indexes}

InitExploit ==
    /\ IdleSelection
    /\ IdleCombine
    /\ IdlePossible
    /\ IdleBenefits
    /\ exploit_pc = "baseline"
    /\ IsWorkload(workload, MaxQueries)
    /\ max_index_columns \in 1..MaxIndexColumns
    /\ query_position = 1
    /\ simulated = {}
    /\ cost_without_indexes = 0
    /\ plan = [cost |-> 0, indexes |-> {}]
    /\ exploit_results = <<>>
    /\ index_candidates = {}

\* lines 76-78: the plan of the query as the database stands
GetBaselinePlan ==
    /\ exploit_pc = "baseline"
    /\ query_position <= Len(workload)
    /\ \E p \in get_plan(simulated) : cost_without_indexes' = p.cost
    /\ exploit_pc' = "simulate"
    /\ UNCHANGED <<workload, max_index_columns, query_position, simulated,
                   plan, exploit_results, index_candidates, notExploitVars>>

\* lines 93-94, one turn of the loop: the loop visits every candidate once
SimulateIndex ==
    /\ exploit_pc = "simulate"
    /\ \E index \in indexes_of_query \ simulated :
          simulated' = simulate_index(simulated, index)
    /\ UNCHANGED <<exploit_pc, workload, max_index_columns, query_position,
                   cost_without_indexes, plan, exploit_results,
                   index_candidates, notExploitVars>>

\* lines 96-98, after the loop of line 93: the plan with the candidates in place
GetPlanWithIndexes ==
    /\ exploit_pc = "simulate"
    /\ indexes_of_query \subseteq simulated
    /\ plan' \in get_plan(simulated)
    /\ exploit_pc' = "drop"
    /\ UNCHANGED <<workload, max_index_columns, query_position, simulated,
                   cost_without_indexes, exploit_results, index_candidates,
                   notExploitVars>>

\* line 100
DropAllSimulatedIndexes ==
    /\ exploit_pc = "drop"
    /\ simulated' = drop_all_simulated_indexes(simulated)
    /\ exploit_pc' = "record"
    /\ UNCHANGED <<workload, max_index_columns, query_position,
                   cost_without_indexes, plan, exploit_results,
                   index_candidates, notExploitVars>>

\* line 86 written as an assignment
update_replaces(index_candidates_, indexes) == indexes

\* line 86: index_candidates.update(indexes)
update(index_candidates_, indexes) == index_candidates_ \cup indexes

\* lines 102-108 and 79-86: indexes of line 79 is the list of line 108
RecordQueryResult ==
    /\ exploit_pc = "record"
    /\ LET indexes == recommended_indexes(indexes_of_query, plan)
       IN  /\ exploit_results' =
                 (workload[query_position] :>
                     [cost_without_indexes |-> cost_without_indexes,
                      cost_with_recommended_indexes |-> plan.cost,
                      recommended_indexes |-> indexes]) @@ exploit_results
           /\ index_candidates' = update(index_candidates, indexes)
    /\ query_position' = query_position + 1
    /\ exploit_pc' = "baseline"
    /\ UNCHANGED <<workload, max_index_columns, simulated,
                   cost_without_indexes, plan, notExploitVars>>

\* line 87, after the last query
ReturnExploit ==
    /\ exploit_pc = "baseline"
    /\ query_position > Len(workload)
    /\ exploit_pc' = "returned"
    /\ UNCHANGED <<workload, max_index_columns, query_position, simulated,
                   cost_without_indexes, plan, exploit_results,
                   index_candidates, notExploitVars>>

NextExploit ==
    \/ GetBaselinePlan
    \/ SimulateIndex
    \/ GetPlanWithIndexes
    \/ DropAllSimulatedIndexes
    \/ RecordQueryResult
    \/ ReturnExploit

SpecExploit == InitExploit /\ [][NextExploit]_vars

\* ------------------------------------------------------------ claims

SameMembers(list, other) ==
    /\ Range(list) = Range(other)
    /\ Len(list) = Len(other)

\* the sizes of the entries of indexes_benefits before position j that are
\* in the selected list
AdmittedBefore(j) ==
    SumSizes(Filter(SubSeq(indexes_benefits, 1, j - 1), Range(selected_indexes)))

\* C1: during and after the greedy fill, and after the accept/reject decision
\* of every iteration of _try_variations, the sizes of the selected indexes
\* sum to at most disk_constraint.
C1_BudgetInvariant ==
    pc \in {"greedy", "while", "done"}
        => SumSizes(selected_indexes) <= disk_constraint

\* an accepted iteration that exchanged indexes and filled the budget
C1_Witness ==
    /\ pc = "while"
    /\ removed # <<>>
    /\ new_selected # <<>>
    /\ current_cost < before.cost
    /\ SumSizes(selected_indexes) = disk_constraint

\* C2: at every point of the greedy walk, an entry already passed is in the
\* selected list if and only if the sizes of the entries admitted before it
\* plus its own size are at most the budget; the selected list is the
\* admitted entries in list order.
C2_GreedyRule ==
    pc = "greedy" =>
        /\ \A j \in 1..(walk - 1) :
              indexes_benefits[j] \in Range(selected_indexes)
                  <=> AdmittedBefore(j) + indexes_benefits[j].size
                          <= disk_constraint
        /\ selected_indexes =
              Filter(SubSeq(indexes_benefits, 1, walk - 1),
                     Range(selected_indexes))
        /\ disk_usage = SumSizes(selected_indexes)

\* the first entry was skipped, the second one admitted
C2_Witness ==
    /\ pc = "greedy"
    /\ walk = 3
    /\ selected_indexes = <<indexes_benefits[2]>>

\* C3: no entry that _combine_subsumed removes from the list is admitted by
\* the greedy fill, is in the unused pool of _try_variations, or is returned.
C3_ReducedListOnly ==
    pc \in {"greedy", "while", "adding", "done"} =>
        LET dropped == Range(indexes_benefits) \ _combine_subsumed(indexes_benefits)
        IN  /\ Range(selected_indexes) \cap dropped = {}
            /\ Range(not_used_indexes) \cap dropped = {}
            /\ Range(returned) \cap {x.index : x \in dropped} = {}

\* C7: an iteration whose cost is not below the baseline leaves the members
\* of the selected list and of the unused pool, the disk usage of the
\* selected list and the baseline cost as they were at its head.
C7_RejectedIsNoOp ==
    [][(/\ pc = "adding"
        /\ pc' = "while"
        /\ cost_of'[IndexesOf(selected_indexes \o new_selected)] >= current_cost)
       => /\ SameMembers(selected_indexes', before.selected)
          /\ SameMembers(not_used_indexes', before.not_used)
          /\ SumSizes(selected_indexes') = SumSizes(before.selected)
          /\ current_cost' = before.cost
          /\ current_cost' = current_cost]_vars

\* a rejected iteration that had removed and added entries
C7_Witness ==
    /\ pc = "while"
    /\ removed # <<>>
    /\ new_selected # <<>>
    /\ Range(selected_indexes) = Range(before.selected)
    /\ current_cost = before.cost

BaselineNeverRises ==
    pc \in {"while", "adding"} => current_cost' <= current_cost

ChangeLowersBaseline ==
    (/\ pc = "adding"
     /\ pc' = "while"
     /\ Range(selected_indexes') # Range(before.selected))
        => current_cost' < current_cost

\* C8: the baseline never increases over the loop, a decision that changes
\* the members of the selected list lowers it strictly, and the cost of the
\* final selected list is at most the cost of the greedy one.
C8_Monotone ==
    /\ [][BaselineNeverRises /\ ChangeLowersBaseline]_vars
    /\ [](pc = "done" =>
            /\ current_cost <= initial_cost
            /\ cost_of[IndexesOf(selected_indexes)] = current_cost)

\* the run ended with a cost below the greedy one
C8_Witness ==
    /\ pc = "done"
    /\ current_cost < initial_cost
    /\ returned # <<>>

Sorted(list) ==
    \A i \in 1..(Len(list) - 1) : ratio_ge(list[i], list[i + 1])

\* C4: whenever _combine_subsumed returns, the first entry of its argument
\* is in the returned set.
C4_FirstEntryKept ==
    (combine_pc = "returned" /\ index_benefits # <<>>)
        => index_benefits[1] \in combined

\* a sorted list of three from which an entry was removed
C4_Witness ==
    /\ combine_pc = "returned"
    /\ Sorted(index_benefits)
    /\ Len(index_benefits) = 3
    /\ Cardinality(combined) < 3
    /\ index_benefits[1] \in combined

\* C5 as stated: among the survivors of a sorted list no index is subsumed
\* by the index of another survivor.
C5_NoSurvivorSubsumed ==
    (combine_pc = "returned" /\ Sorted(index_benefits)) =>
        \A x, y \in combined : x # y => ~subsumes(y.index, x.index)

\* C5 amended: no survivor is subsumed by a survivor that precedes it in
\* the list.
C5_NoSurvivorSubsumedByEarlier ==
    combine_pc = "returned" =>
        \A i, j \in 1..Len(index_benefits) :
            (/\ i < j
             /\ index_benefits[i] \in combined
             /\ index_benefits[j] \in combined)
                => ~subsumes(index_benefits[i].index, index_benefits[j].index)

\* a sorted list with a subsumed entry after its subsumer and another
\* survivor
C5_Witness ==
    /\ combine_pc = "returned"
    /\ Sorted(index_benefits)
    /\ Cardinality(combined) = 2
    /\ \E i, j \in 1..Len(index_benefits) :
          /\ i < j
          /\ subsumes(index_benefits[i].index, index_benefits[j].index)
          /\ index_benefits[j] \notin combined

\* C6: _combine_subsumed returns no result for a list that is not sorted
\* descending by benefit/size ratio.
C6_UnsortedIsRefused ==
    ~Sorted(index_benefits) => combine_pc # "returned"

\* every sequence of one to longest columns
ColumnSequences(longest) == UNION {[1..n -> Columns] : n \in 1..longest}

\* C9: _possible_indexes returns exactly the sequences of 1..max_columns
\* pairwise different columns of the query that all belong to one table.
C9_PermutationsPerTable ==
    possible_pc = "returned" =>
        possible_indexes =
            {s \in ColumnSequences(max_columns) :
                /\ \A i \in 1..Len(s) : s[i] \in query_columns
                /\ \A i, j \in 1..Len(s) : i # j => s[i] # s[j]
                /\ \A i, j \in 1..Len(s) : s[i].table = s[j].table}

\* columns of two tables, more columns in one table than max_columns
C9_Witness ==
    /\ possible_pc = "returned"
    /\ max_columns = 2
    /\ query_columns = {Col("T", "A"), Col("T", "B"), Col("T", "C"), Col("U", "A")}
    /\ Cardinality(possible_indexes) = 10

\* the sum of the benefits of the queries of a set
RECURSIVE BenefitOver(_, _)
BenefitOver(results, queries) ==
    IF queries = {} THEN 0
    ELSE LET q == CHOOSE x \in queries : TRUE
         IN  (results[q].cost_without_indexes
                 - results[q].cost_with_recommended_indexes)
             + BenefitOver(results, queries \ {q})

\* C10: the list returned holds exactly one entry per candidate, and its
\* benefit is the sum of cost_without_indexes - cost_with_recommended_indexes
\* over the queries that recommend the candidate.
C10_BenefitFormula ==
    benefits_pc = "returned" =>
        /\ Len(indexes_benefit) = Cardinality(candidates)
        /\ \A c \in candidates :
              \E i \in 1..Len(indexes_benefit) :
                  /\ indexes_benefit[i].index = c
                  /\ indexes_benefit[i].benefit =
                        BenefitOver(query_results,
                            {q \in 1..Len(query_results) :
                                c \in query_results[q].recommended_indexes})

\* one candidate recommended by two queries that both gain, another one
\* recommended by none of them
C10_Witness ==
    /\ benefits_pc = "returned"
    /\ Len(query_results) = 2
    /\ \E i, j \in 1..Len(indexes_benefit) :
          /\ indexes_benefit[i].benefit = 2
          /\ indexes_benefit[j].benefit = 0
          /\ \A q \in 1..2 :
                indexes_benefit[j].index
                    \notin query_results[q].recommended_indexes

\* every candidate generated for the queries of the workload
GeneratedCandidates ==
    UNION {_possible_indexes(workload[i].columns, max_index_columns) :
              i \in 1..Len(workload)}

\* every candidate some query's plan named
RecommendedCandidates ==
    UNION {exploit_results[q].recommended_indexes : q \in DOMAIN exploit_results}

\* C11 as stated: the candidate set _exploit_virtual_indexes returns is the
\* union, over the queries, of all the candidates generated and simulated for
\* the query, whether a plan used them or not.
C11_AllGeneratedReturned ==
    exploit_pc = "returned" => index_candidates = GeneratedCandidates

\* C11 as the code has it: the candidate set _exploit_virtual_indexes returns is
\* the union, over the queries, of the recommended indexes of the query, the
\* generated candidates the query's plan with the candidates in place names;
\* every query of the workload has its result.
C11_RecommendedReturned ==
    exploit_pc = "returned" =>
        /\ DOMAIN exploit_results = Range(workload)
        /\ index_candidates = RecommendedCandidates
        /\ index_candidates \subseteq GeneratedCandidates

\* two queries each recommended an index the other did not, and a generated
\* candidate was in no plan
C11_Witness ==
    /\ exploit_pc = "returned"
    /\ Len(workload) = 2
    /\ exploit_results[workload[1]].recommended_indexes
          \ exploit_results[workload[2]].recommended_indexes # {}
    /\ exploit_results[workload[2]].recommended_indexes
          \ exploit_results[workload[1]].recommended_indexes # {}
    /\ index_candidates # GeneratedCandidates

\* C12: with disk_constraint 0 and candidates of positive size the greedy fill
\* admits nothing and the refiner adds nothing, so the list returned is empty:
\* the run ends by returning the empty list.
C12_ZeroBudgetReturnsNothing ==
    (disk_constraint = 0 /\ \A i \in 1..Len(indexes_benefits) :
                               indexes_benefits[i].size > 0) =>
        /\ selected_indexes = <<>>
        /\ new_selected = <<>>
        /\ disk_usage = 0
        /\ not_used_indexes \in {<<>>, indexes_benefits}
        /\ pc = "done" => returned = <<>>

\* a run with budget 0 over two candidates went through an iteration of the
\* refiner and returned
C12_Witness ==
    /\ disk_constraint = 0
    /\ Len(indexes_benefits) = 2
    /\ number_removed > 0
    /\ pc = "done"
    /\ returned = <<>>

\* every entry of whole is in exactly one of the lists of parts, once
Partition(whole, parts) ==
    LET all == parts[1] \o parts[2] \o parts[3] \o parts[4]
    IN  /\ Len(all) = Len(whole)
        /\ Range(all) = Range(whole)

\* C14: at the head of every iteration of the refiner each entry of the benefit
\* list is in exactly one of the selected list and the unused list, once;
\* within an iteration each entry is in exactly one of the selected, unused,
\* removed and newly added lists, so the candidates of an addition never include
\* an entry removed in the same iteration.
C14_ExclusiveOwnership ==
    /\ pc = "while" =>
          Partition(indexes_benefits,
                    <<selected_indexes, not_used_indexes, <<>>, <<>> >>)
    /\ pc = "adding" =>
          /\ Partition(indexes_benefits,
                       <<selected_indexes, not_used_indexes, removed,
                         new_selected>>)
          /\ add_candidates(not_used_indexes, disk_usage, disk_constraint)
                \cap Range(removed) = {}

\* within an iteration an entry was removed, another added, and the removed one
\* would fit the budget
C14_Witness ==
    /\ pc = "adding"
    /\ Len(removed) = 1
    /\ Len(new_selected) = 1
    /\ removed[1] # new_selected[1]
    /\ disk_usage + removed[1].size <= disk_constraint

\* the cost line 224 gets for the variation of the iteration that is ending
VariationCost == cost_of'[IndexesOf(selected_indexes \o new_selected)]

\* the iteration that is ending accepts: the selected list becomes the old one
\* less the removed entries plus the added ones, the unused list the old one
\* less the added entries plus the removed ones, the baseline the new cost
AcceptedEffects ==
    /\ SameMembers(selected_indexes',
                   Filter(before.selected,
                          Range(before.selected) \ Range(removed))
                      \o new_selected)
    /\ SameMembers(not_used_indexes',
                   Filter(before.not_used,
                          Range(before.not_used) \ Range(new_selected))
                      \o removed)
    /\ current_cost' = VariationCost

\* the iteration that is ending rejects: both lists get their entries back and
\* the baseline stays
RejectedEffects ==
    /\ SameMembers(selected_indexes', before.selected)
    /\ SameMembers(not_used_indexes', before.not_used)
    /\ current_cost' = current_cost

AcceptRule ==
    (pc = "adding" /\ pc' = "while") =>
        IF VariationCost < current_cost THEN AcceptedEffects
        ELSE RejectedEffects

\* C15: an iteration is accepted exactly when the cost of its variation is
\* strictly lower than the baseline, an equal cost being rejected; on acceptance
\* the selected list is the old one less the removed entries plus the added
\* ones, the unused list the old one less the added entries plus the removed
\* ones, and the baseline the new cost.
C15_AcceptRule == [][AcceptRule]_vars

\* an accepted exchange: one entry out, another in, the baseline lower, the
\* removed entry back in the unused list
C15_Witness ==
    /\ pc = "while"
    /\ number_removed > 0
    /\ Len(removed) = 1
    /\ Len(new_selected) = 1
    /\ current_cost < before.cost
    /\ removed[1] \in Range(not_used_indexes)
    /\ new_selected[1] \in Range(selected_indexes)
    /\ removed[1] \notin Range(selected_indexes)

\* C16: at the head of every iteration of the refiner, and when the loop is
\* left, current_cost is the cost calculate_cost has for the set of the indexes
\* of the selected list, although current_cost is carried from iteration to
\* iteration and not evaluated again.
C16_BaselineConsistent ==
    pc \in {"while", "done"} =>
        /\ IndexesOf(selected_indexes) \in DOMAIN cost_of
        /\ current_cost = cost_of[IndexesOf(selected_indexes)]

\* at the head of an iteration, after an accepted and then a rejected one: the
\* baseline is below the cost of line 189 and the rejected variation cost more
C16_Witness ==
    /\ pc = "while"
    /\ current_cost < initial_cost
    /\ current_cost = before.cost
    /\ SameMembers(selected_indexes, before.selected)
    /\ new_selected # <<>>
    /\ cost_of[IndexesOf(Filter(selected_indexes,
                                Range(selected_indexes) \ Range(removed))
                            \o new_selected)] > current_cost

\* the sizes of the first n entries of list
SumSizesUpTo(list, n) == SumSizes(SubSeq(list, 1, n))

\* what C17 says of the draw and of the additions: r is within 1 and
\* maximum_remove - 1, the removed entries stood at distinct positions of the
\* selected list, at most r entries are added, each out of the unused pool and
\* of a size within the budget left when it was drawn
DrawAndAdditions ==
    /\ number_removed \in 1..(try_variation_maximum_remove - 1)
    /\ SameMembers(selected_indexes \o removed, before.selected)
    /\ Len(new_selected) <= number_removed
    /\ \A k \in 1..Len(new_selected) :
          /\ new_selected[k] \in Range(before.not_used)
          /\ new_selected[k].size <=
                disk_constraint - (SumSizes(selected_indexes)
                                      + SumSizesUpTo(new_selected, k - 1))

\* C17 as stated: in every iteration an r within 1 and maximum_remove - 1 is
\* drawn, exactly r entries at r distinct positions of the selected list are
\* removed, and at most r entries are added, each from the unused pool with a
\* size within the budget left at its draw.
C17_ExactlyRemoved ==
    pc = "adding" =>
        /\ DrawAndAdditions
        /\ Len(removed) = number_removed

\* C17 as the code has it: the number of entries removed is r, or the length of
\* the selected list when that is shorter than r; the rest as stated.
C17_RemovedUpToLength ==
    pc = "adding" =>
        /\ DrawAndAdditions
        /\ Len(removed) = IF number_removed < Len(before.selected)
                          THEN number_removed ELSE Len(before.selected)

\* r was drawn above the length of the selected list: the one selected entry
\* is removed, and one entry added
C17_Witness ==
    /\ pc = "adding"
    /\ number_removed > Len(before.selected)
    /\ Len(removed) = 1
    /\ Len(new_selected) = 1

\* the entry at position low of the argument has, before it, an entry of the
\* returned set whose index subsumes its index
SubsumedByEarlierSurvivor(low) ==
    \E high \in 1..(low - 1) :
        /\ index_benefits[high] \in combined
        /\ subsumes(index_benefits[high].index, index_benefits[low].index)

CombineLeavesArgument == index_benefits' = index_benefits

\* C18: whenever _combine_subsumed returns, an entry of its argument is left
\* out of the returned set if and only if an earlier entry that is itself in
\* the returned set subsumes it; the returned entries are entries of the
\* argument, with their index, benefit and size, and the argument is the list
\* it was.  With (A, B) before (A) only (A, B) is returned.
C18_RemovalRule ==
    /\ [](combine_pc = "returned" =>
             /\ combined \subseteq Range(index_benefits)
             /\ \A low \in 1..Len(index_benefits) :
                   index_benefits[low] \notin combined
                      <=> SubsumedByEarlierSurvivor(low))
    /\ [][CombineLeavesArgument]_vars

\* (A, B) first, then (B), then (A): (A) is removed by the first entry and (B)
\* stays although it follows it
C18_Witness ==
    /\ combine_pc = "returned"
    /\ Len(index_benefits) = 3
    /\ index_benefits[1].index = <<Col("T", "A"), Col("T", "B")>>
    /\ index_benefits[2].index = <<Col("T", "B")>>
    /\ index_benefits[3].index = <<Col("T", "A")>>
    /\ combined = {index_benefits[1], index_benefits[2]}

\* the order of the calls on the database within one query
CallOrder ==
    {<<"baseline", "simulate">>, <<"simulate", "drop">>, <<"drop", "record">>,
     <<"record", "baseline">>, <<"baseline", "returned">>}

\* the simulated set changes by simulate_index on a candidate of the query
\* between the two plans, and by the drop after the second plan
SimulatedChangesInOrder ==
    simulated' # simulated =>
        \/ /\ exploit_pc = "simulate"
           /\ exploit_pc' = "simulate"
           /\ \E index \in indexes_of_query \ simulated :
                 simulated' = simulated \cup {index}
        \/ /\ exploit_pc = "drop"
           /\ simulated' = {}

\* C19: for every query the calls on the database come in the order baseline
\* get_plan, simulate_index for each candidate of the query, get_plan,
\* drop_all_simulated_indexes; the baseline plan is asked for with no index
\* simulated, and the plan with the indexes is asked for, and answered, with
\* exactly the candidates of that query simulated, none of another query.
C19_VirtualIndexIsolation ==
    /\ [](exploit_pc \in {"baseline", "record", "returned"} => simulated = {})
    /\ []((exploit_pc = "simulate" /\ indexes_of_query \subseteq simulated)
             => simulated = indexes_of_query)
    /\ [](exploit_pc = "drop" =>
             /\ simulated = indexes_of_query
             /\ plan.indexes \subseteq indexes_of_query)
    /\ [][exploit_pc' # exploit_pc => <<exploit_pc, exploit_pc'>> \in CallOrder]_vars
    /\ [][SimulatedChangesInOrder]_vars

\* the second query's plan with its own candidates in place, after a first
\* query whose candidates were others, names one of them
C19_Witness ==
    /\ exploit_pc = "drop"
    /\ query_position = 2
    /\ simulated = indexes_of_query
    /\ plan.indexes # {}
    /\ \E index \in exploit_results[workload[1]].recommended_indexes :
          index \notin simulated

\* the loop of line 192 is left at its head only, on a reading of the clock
\* that shows the limit reached
LeftAtHeadOnly == pc' = "done" => (pc = "while" /\ now >= seconds_limit)

\* an iteration under way goes on to its decision, whatever candidates are left
IterationGoesOn == pc = "adding" => pc' \in {"adding", "while"}

\* C20: with the clock advancing and every call returning, _try_variations
\* terminates for every time limit; the loop ends only at its head, on the clock
\* showing elapsed >= T, never within an iteration and never for want of a
\* move; every iteration started reaches its accept or reject decision; with
\* T = 0 no iteration runs and the selected list stays as the greedy fill left
\* it.
C20_Terminates ==
    /\ (pc = "while") ~> (pc = "done")
    /\ (pc = "adding") ~> (pc = "while")
    /\ [][LeftAtHeadOnly /\ IterationGoesOn]_vars
    /\ []((seconds_limit = 0 /\ pc \in {"while", "adding", "done"}) =>
             /\ pc # "adding"
             /\ number_removed = 0
             /\ selected_indexes = before.selected
             /\ pc = "done" => returned = [i \in 1..Len(selected_indexes) |->
                                              selected_indexes[i].index])

\* the refiner returned after the clock reached a limit above 0 and an
\* iteration ran that found nothing to add
C20_Witness ==
    /\ pc = "done"
    /\ seconds_limit > 0
    /\ now >= seconds_limit
    /\ number_removed > 0
    /\ new_selected = <<>>
    /\ removed # <<>>

====
